---- MODULE Spec2Model ----
(***************************************************************************)
(* Drift Beacon: the polling coordinator (coordinator.py), its diff engine *)
(* and the protocol racer and the authentication of the config flow        *)
(* (config_flow.py).                                                       *)
(*                                                                         *)
(* Python's None is the string "None" where the value is a string, an      *)
(* empty sequence where the value is an optional record, and a record with *)
(* loaded = FALSE for the coordinator's data before the first refresh.     *)
(***************************************************************************)
EXTENDS Integers, Sequences, FiniteSets, TLC

VARIABLES
    server,     \* the device: its activity catalog and its open sessions
    data,       \* DataUpdateCoordinator.data, the exposed snapshot
    tick,       \* per refresh in flight: position in _async_update_data and its locals
    ended,      \* the refresh or command that ended last: how it ended, what it fired
    timer,      \* the coordinator's scheduled refresh is armed (_unsub_refresh)
    db,         \* the request-refresh debouncer: execute lock, cooldown timer, pending flag
    cmd,        \* the start_session / stop_session call in flight
    nTicks,     \* refreshes started so far (bounded)
    nCmds,      \* commands invoked so far (bounded)
    race,       \* _detect_local_addon / _detect_protocol_parallel: position and locals
    probe,      \* per transport: the _try_protocol task and its network I/O
    order,      \* the transports in the order their tasks completed, this race
    hub,        \* DriftBeaconConfigFlow._detected_hub
    entry,      \* the data of the stored config entry (the credential)
    flow,       \* the config flow step in progress: its arguments and its result
    hs,         \* the handshake (_do_auth) in flight: position and locals
    reqs,       \* the requests the current authentication has sent
    scopes,     \* the temporary client sessions that are open
    diff,       \* one call of _fire_session_events: its arguments, events and log
    sw          \* the last async_turn_off of a switch: its activity and what it did

coordVars == <<server, data, tick, ended, timer, db, cmd, nTicks, nCmds>>
raceVars == <<race, probe, order, hub>>
authVars == <<entry, flow, hs, reqs, scopes>>
diffVars == <<diff>>
swVars == <<sw>>
vars == <<server, data, tick, ended, timer, db, cmd, nTicks, nCmds,
          race, probe, order, hub, entry, flow, hs, reqs, scopes, diff, sw>>

(***************************************************************************)
(* Bounds of the model.                                                    *)
(***************************************************************************)
MaxTicks == 3
MaxCmds == 2
MaxLen == 2

None == "None"

(***************************************************************************)
(* Data model: Activity, Session, DriftBeaconData.                         *)
(***************************************************************************)
ActivityIds == {"a1", "a2"}
SessionIds == {"s1"}

ActivityName(a) == IF a = "a1" THEN "Deep Work" ELSE "Break"

Activity(a) ==
    [id |-> a, name |-> ActivityName(a), color |-> IF a = "a1" THEN "red" ELSE "blue",
     icon |-> "mdi:timer", workspace_id |-> "w1", workspace_name |-> "Home"]

Session(s, a) ==
    [id |-> s, activity_id |-> a, start_time |-> IF s = "s1" THEN "t1" ELSE "t2",
     workspace_id |-> "w1", workspace_name |-> "Home"]

DriftBeaconData(activities, live_sessions) ==
    [loaded |-> TRUE, activities |-> activities, live_sessions |-> live_sessions]

NoData == [loaded |-> FALSE, activities |-> <<>>, live_sessions |-> <<>>]

(***************************************************************************)
(* The diff engine, _fire_session_events: the events it fires, in order.   *)
(***************************************************************************)
RECURSIVE get_activity(_, _)
get_activity(activities, activity_id) ==
    IF activity_id = None \/ activities = <<>> THEN <<>>
    ELSE IF Head(activities).id = activity_id THEN <<Head(activities)>>
    ELSE get_activity(Tail(activities), activity_id)

\* mutant: the lookup is empty
SessionKeysNone(sessions) == {}

\* the keys of {s["id"]: s for s in sessions}
SessionKeys(sessions) == {sessions[i].id : i \in 1..Len(sessions)}

\* {s["id"]: s for s in sessions}[id]: the last session of the list with that id
SessionById(sessions, id) ==
    sessions[CHOOSE i \in 1..Len(sessions) :
                 /\ sessions[i].id = id
                 /\ \A j \in (i+1)..Len(sessions) : sessions[j].id # id]

\* the keys of the dict in iteration (first insertion) order
RECURSIVE KeysInOrder(_, _)
KeysInOrder(sessions, seen) ==
    IF sessions = <<>> THEN <<>>
    ELSE IF Head(sessions).id \in seen THEN KeysInOrder(Tail(sessions), seen)
    ELSE <<Head(sessions).id>> \o KeysInOrder(Tail(sessions), seen \cup {Head(sessions).id})

\* self.hass.bus.async_fire(event_type, event_data) for a session: the
\* event, with the id of the session it was fired for
async_fire(session, event_data) == [session_id |-> session.id, data |-> event_data]

StartedEvent(activity, new_session) ==
    [type |-> "session_started",
     activity_id |-> activity.id, activity_name |-> activity.name,
     color |-> activity.color, icon |-> activity.icon,
     workspace_id |-> new_session.workspace_id,
     workspace_name |-> new_session.workspace_name,
     session_start_time |-> new_session.start_time]

StoppedEvent(activity, old_session) ==
    [type |-> "session_stopped",
     activity_id |-> old_session.activity_id, activity_name |-> activity.name,
     workspace_id |-> old_session.workspace_id,
     workspace_name |-> old_session.workspace_name]

\* mutant: the previous activity is taken from the new session
ChangedEventNoPrevious(new_activity, old_activity, old_session, new_session) ==
    [type |-> "session_changed",
     activity_id |-> new_activity.id, activity_name |-> new_activity.name,
     color |-> new_activity.color, icon |-> new_activity.icon,
     workspace_id |-> new_session.workspace_id,
     workspace_name |-> new_session.workspace_name,
     session_start_time |-> new_session.start_time,
     previous_activity_id |-> new_session.activity_id,
     previous_activity_name |-> new_activity.name]

ChangedEvent(new_activity, old_activity, old_session, new_session) ==
    [type |-> "session_changed",
     activity_id |-> new_activity.id, activity_name |-> new_activity.name,
     color |-> new_activity.color, icon |-> new_activity.icon,
     workspace_id |-> new_session.workspace_id,
     workspace_name |-> new_session.workspace_name,
     session_start_time |-> new_session.start_time,
     previous_activity_id |-> old_session.activity_id,
     previous_activity_name |->
         IF old_activity # <<>> THEN old_activity[1].name ELSE None]

\* mutant: the loop ends at the first session whose activity is unknown
RECURSIVE StartedEventsAbort(_, _, _)
StartedEventsAbort(rest, old_keys, activities) ==
    IF rest = <<>> THEN <<>>
    ELSE LET new_session == Head(rest)
             activity == get_activity(activities, new_session.activity_id)
         IN IF new_session.id \in old_keys
            THEN StartedEventsAbort(Tail(rest), old_keys, activities)
            ELSE IF activity = <<>> THEN <<>>
            ELSE <<async_fire(new_session, StartedEvent(activity[1], new_session))>>
                 \o StartedEventsAbort(Tail(rest), old_keys, activities)

\* for new_session in new_sessions: ... fire session_started
RECURSIVE StartedEvents(_, _, _)
StartedEvents(rest, old_keys, activities) ==
    IF rest = <<>> THEN <<>>
    ELSE LET new_session == Head(rest)
             activity == get_activity(activities, new_session.activity_id)
         IN (IF new_session.id \notin old_keys /\ activity # <<>>
             THEN <<async_fire(new_session, StartedEvent(activity[1], new_session))>>
             ELSE <<>>)
            \o StartedEvents(Tail(rest), old_keys, activities)

\* mutant: the stopped loop does not look the session up in the new list
RECURSIVE StoppedEventsAll(_, _, _)
StoppedEventsAll(rest, new_keys, activities) ==
    IF rest = <<>> THEN <<>>
    ELSE LET old_session == Head(rest)
             activity == get_activity(activities, old_session.activity_id)
         IN (IF activity # <<>>
             THEN <<async_fire(old_session, StoppedEvent(activity[1], old_session))>>
             ELSE <<>>)
            \o StoppedEventsAll(Tail(rest), new_keys, activities)

\* for old_session in old_sessions: ... fire session_stopped
RECURSIVE StoppedEvents(_, _, _)
StoppedEvents(rest, new_keys, activities) ==
    IF rest = <<>> THEN <<>>
    ELSE LET old_session == Head(rest)
             activity == get_activity(activities, old_session.activity_id)
         IN (IF old_session.id \notin new_keys /\ activity # <<>>
             THEN <<async_fire(old_session, StoppedEvent(activity[1], old_session))>>
             ELSE <<>>)
            \o StoppedEvents(Tail(rest), new_keys, activities)

\* mutant: the activity ids are not compared
RECURSIVE ChangedEventsAlways(_, _, _, _)
ChangedEventsAlways(keys, old_sessions, new_sessions, activities) ==
    IF keys = <<>> THEN <<>>
    ELSE LET session_id == Head(keys)
             old_session == SessionById(old_sessions, session_id)
             new_session == SessionById(new_sessions, session_id)
             old_activity == get_activity(activities, old_session.activity_id)
             new_activity == get_activity(activities, new_session.activity_id)
         IN (IF session_id \in SessionKeys(new_sessions) /\ new_activity # <<>>
             THEN <<async_fire(new_session,
                               ChangedEvent(new_activity[1], old_activity,
                                            old_session, new_session))>>
             ELSE <<>>)
            \o ChangedEventsAlways(Tail(keys), old_sessions, new_sessions, activities)

\* mutant: the event also needs the previous activity to be known
RECURSIVE ChangedEventsStrict(_, _, _, _)
ChangedEventsStrict(keys, old_sessions, new_sessions, activities) ==
    IF keys = <<>> THEN <<>>
    ELSE LET session_id == Head(keys)
             old_session == SessionById(old_sessions, session_id)
             new_session == SessionById(new_sessions, session_id)
             old_activity == get_activity(activities, old_session.activity_id)
             new_activity == get_activity(activities, new_session.activity_id)
         IN (IF /\ session_id \in SessionKeys(new_sessions)
                /\ old_session.activity_id # new_session.activity_id
                /\ new_activity # <<>> /\ old_activity # <<>>
             THEN <<async_fire(new_session,
                               ChangedEvent(new_activity[1], old_activity,
                                            old_session, new_session))>>
             ELSE <<>>)
            \o ChangedEventsStrict(Tail(keys), old_sessions, new_sessions, activities)

\* for session_id in old_sessions_by_id: ... fire session_changed
RECURSIVE ChangedEvents(_, _, _, _)
ChangedEvents(keys, old_sessions, new_sessions, activities) ==
    IF keys = <<>> THEN <<>>
    ELSE LET session_id == Head(keys)
             old_session == SessionById(old_sessions, session_id)
             new_session == SessionById(new_sessions, session_id)
             old_activity == get_activity(activities, old_session.activity_id)
             new_activity == get_activity(activities, new_session.activity_id)
         IN (IF session_id \in SessionKeys(new_sessions)
             THEN IF old_session.activity_id # new_session.activity_id
                     /\ new_activity # <<>>
                  THEN <<async_fire(new_session,
                                    ChangedEvent(new_activity[1], old_activity,
                                                 old_session, new_session))>>
                  ELSE <<>>
             ELSE <<>>)
            \o ChangedEvents(Tail(keys), old_sessions, new_sessions, activities)

_fire_session_events(old_sessions, new_sessions, activities) ==
    StartedEvents(new_sessions, SessionKeys(old_sessions), activities)
    \o StoppedEvents(old_sessions, SessionKeys(new_sessions), activities)
    \o ChangedEvents(KeysInOrder(old_sessions, {}), old_sessions, new_sessions, activities)

\* what _fire_session_events writes to _LOGGER: a debug record before each
\* event it fires, and nothing else
LogRecords(fired) ==
    [i \in 1..Len(fired) |-> [level |-> "debug", session_id |-> fired[i].session_id]]

(***************************************************************************)
(* The device (environment): its session opens, closes and changes         *)
(* activity, and the catalog is edited, at any time between two requests.  *)
(***************************************************************************)
Catalogs == {<<Activity("a1"), Activity("a2")>>, <<Activity("a2")>>}

RECURSIVE Without(_, _)
Without(sessions, id) ==
    IF sessions = <<>> THEN <<>>
    ELSE IF Head(sessions).id = id THEN Without(Tail(sessions), id)
    ELSE <<Head(sessions)>> \o Without(Tail(sessions), id)

DeviceOpensSession ==
    /\ \E s \in SessionIds \ SessionKeys(server.live), a \in ActivityIds :
           server' = [server EXCEPT !.live = Append(@, Session(s, a))]
    /\ UNCHANGED <<data, tick, ended, timer, db, cmd, nTicks, nCmds>>
    /\ UNCHANGED <<raceVars, authVars, diffVars, swVars>>

DeviceClosesSession ==
    /\ \E s \in SessionKeys(server.live) :
           server' = [server EXCEPT !.live = Without(@, s)]
    /\ UNCHANGED <<data, tick, ended, timer, db, cmd, nTicks, nCmds>>
    /\ UNCHANGED <<raceVars, authVars, diffVars, swVars>>

DeviceChangesSession ==
    /\ \E i \in 1..Len(server.live), a \in ActivityIds :
           /\ server.live[i].activity_id # a
           /\ server' = [server EXCEPT !.live[i].activity_id = a]
    /\ UNCHANGED <<data, tick, ended, timer, db, cmd, nTicks, nCmds>>
    /\ UNCHANGED <<raceVars, authVars, diffVars, swVars>>

DeviceEditsCatalog ==
    /\ \E c \in Catalogs \ {server.activities} :
           server' = [server EXCEPT !.activities = c]
    /\ UNCHANGED <<data, tick, ended, timer, db, cmd, nTicks, nCmds>>
    /\ UNCHANGED <<raceVars, authVars, diffVars, swVars>>

(***************************************************************************)
(* _make_authenticated_request: what one request ends with.                *)
(*   "ok"          status 200 and a JSON body         -> returns the body  *)
(*   "401"         status 401                         -> ConfigEntryAuthFailed *)
(*   "http_error"  another error status (raise_for_status) -> ClientResponseError *)
(*   "conn_error"  connection refused, reset, TLS     -> ClientConnectionError *)
(*   "timeout"     ClientTimeout(total=API_TIMEOUT) ran out -> TimeoutError *)
(***************************************************************************)
Outcomes == {"ok", "401", "http_error", "conn_error", "timeout"}

_make_authenticated_request(outcome) ==
    CASE outcome = "ok" -> "return"
      [] outcome = "401" -> "ConfigEntryAuthFailed"
      [] outcome = "http_error" -> "ClientResponseError"
      [] outcome = "conn_error" -> "ClientConnectionError"
      [] outcome = "timeout" -> "TimeoutError"

\* isinstance(err, aiohttp.ClientError): asyncio's TimeoutError is not one
IsClientError(exc) == exc \in {"ClientResponseError", "ClientConnectionError"}

\* mutant: the auth failure is masked as a generic failure
UpdateRaisesMasked(exc) ==
    IF exc = "ConfigEntryAuthFailed" \/ IsClientError(exc)
    THEN "UpdateFailed: Error communicating"
    ELSE "UpdateFailed: Unexpected error"

\* the except clauses of _async_update_data: what the refresh raises
UpdateRaises(exc) ==
    IF exc = "ConfigEntryAuthFailed" THEN "ConfigEntryAuthFailed"
    ELSE IF IsClientError(exc) THEN "UpdateFailed: Error communicating"
    ELSE "UpdateFailed: Unexpected error"

\* mutant: the auth failure is swallowed like the other errors
CommandReturnsSwallowed(exc) == "False"

\* the except clauses of start_session / stop_session: "raise" or the value returned
CommandReturns(exc) ==
    IF exc = "ConfigEntryAuthFailed" THEN "raise ConfigEntryAuthFailed"
    ELSE IF exc = "ClientResponseError" THEN "False"
    ELSE "False"

(***************************************************************************)
(* The polling coordinator.  A refresh runs in one of two slots: the       *)
(* "scheduled" one, started by the update_interval timer of the            *)
(* DataUpdateCoordinator base class (and by the first refresh of setup),   *)
(* and the "requested" one, started through async_request_refresh and the  *)
(* base class's debouncer (immediate, with a cooldown).  The base class    *)
(* disarms the interval timer and cancels the debouncer's cooldown when a  *)
(* refresh starts, and arms the timer again when one ends otherwise than   *)
(* by ConfigEntryAuthFailed; the debouncer runs one call at a time under   *)
(* its execute lock and starts its cooldown after the call.                *)
(***************************************************************************)
Slots == {"scheduled", "requested"}

IdleTick == [pc |-> "idle", old_sessions |-> <<>>, activities |-> <<>>,
             nActivities |-> 0, nLive |-> 0]

IdleCmd == [pc |-> "idle", kind |-> None]

NothingEnded == [op |-> None]

\* old_sessions = self.data.get("live_sessions", []) if self.data else []
OldSessions(d) == IF d.loaded THEN d.live_sessions ELSE <<>>

\* _async_update_data up to its first await: old_sessions is read, the
\* activities request is sent
UpdateBegins(s) ==
    /\ nTicks < MaxTicks
    /\ tick[s].pc = "idle"
    /\ tick' = [tick EXCEPT ![s] = [pc |-> "activities",
                                    old_sessions |-> OldSessions(data),
                                    activities |-> <<>>,
                                    nActivities |-> 1, nLive |-> 0]]
    /\ nTicks' = nTicks + 1
    /\ timer' = FALSE

\* the refresh of slot s ends, having fired `events`: the base class arms
\* the interval timer again (not after ConfigEntryAuthFailed).  `held` is
\* self.data as it is while _async_update_data runs to its end, the events
\* being fired before it returns: the base class assigns the returned
\* snapshot to self.data only after the return.
RefreshEnds(s, raised, activities, live, events) ==
    /\ tick' = [tick EXCEPT ![s] = IdleTick]
    /\ ended' = [op |-> "refresh", slot |-> s, raised |-> raised,
                 activities |-> activities, live |-> live,
                 nActivities |-> tick[s].nActivities, nLive |-> tick[s].nLive,
                 fired |-> events, held |-> data]
    /\ timer' = IF raised = "ConfigEntryAuthFailed" THEN timer ELSE TRUE

\* the interval timer fires (or setup runs the first refresh)
ScheduledRefresh ==
    /\ timer
    /\ UpdateBegins("scheduled")
    /\ db' = [db EXCEPT !.cooldown = FALSE, !.pending = FALSE]
    /\ UNCHANGED <<server, data, ended, cmd, nCmds>>
    /\ UNCHANGED <<raceVars, authVars, diffVars, swVars>>

\* the answer to GET /api/activities arrives; on success the live-sessions
\* request is sent
ActivitiesResponse(s, outcome) ==
    /\ tick[s].pc = "activities"
    /\ LET exc == _make_authenticated_request(outcome)
       IN IF exc = "return"
          THEN /\ tick' = [tick EXCEPT ![s].pc = "live_sessions",
                                       ![s].activities = server.activities,
                                       ![s].nLive = @ + 1]
               /\ UNCHANGED <<ended, timer>>
          ELSE RefreshEnds(s, UpdateRaises(exc), outcome, None, <<>>)
    /\ UNCHANGED <<server, data, db, cmd, nTicks, nCmds>>
    /\ UNCHANGED <<raceVars, authVars, diffVars, swVars>>

\* mutant: the events are computed with the catalog of the held snapshot
LiveSessionsResponseStaleCatalog(s, outcome) ==
    /\ tick[s].pc = "live_sessions"
    /\ LET exc == _make_authenticated_request(outcome)
       IN IF exc = "return"
          THEN /\ data' = DriftBeaconData(tick[s].activities, server.live)
               /\ RefreshEnds(s, None, "ok", "ok",
                              _fire_session_events(tick[s].old_sessions, server.live,
                                                   data.activities))
          ELSE /\ RefreshEnds(s, UpdateRaises(exc), "ok", outcome, <<>>)
               /\ UNCHANGED data
    /\ UNCHANGED <<server, db, cmd, nTicks, nCmds>>
    /\ UNCHANGED <<raceVars, authVars, diffVars, swVars>>

\* mutant: when the second fetch fails the fetched catalog is stored
LiveSessionsResponsePartial(s, outcome) ==
    /\ tick[s].pc = "live_sessions"
    /\ LET exc == _make_authenticated_request(outcome)
       IN IF exc = "return"
          THEN /\ data' = DriftBeaconData(tick[s].activities, server.live)
               /\ RefreshEnds(s, None, "ok", "ok",
                              _fire_session_events(tick[s].old_sessions, server.live,
                                                   tick[s].activities))
          ELSE /\ RefreshEnds(s, UpdateRaises(exc), "ok", outcome, <<>>)
               /\ data' = DriftBeaconData(tick[s].activities, OldSessions(data))
    /\ UNCHANGED <<server, db, cmd, nTicks, nCmds>>
    /\ UNCHANGED <<raceVars, authVars, diffVars, swVars>>

\* mutant: the first refresh diffs against the list it has just fetched
LiveSessionsResponseFirstSilent(s, outcome) ==
    /\ tick[s].pc = "live_sessions"
    /\ LET exc == _make_authenticated_request(outcome)
       IN IF exc = "return"
          THEN /\ data' = DriftBeaconData(tick[s].activities, server.live)
               /\ RefreshEnds(s, None, "ok", "ok",
                              _fire_session_events(IF data.loaded THEN tick[s].old_sessions
                                                   ELSE server.live,
                                                   server.live, tick[s].activities))
          ELSE /\ RefreshEnds(s, UpdateRaises(exc), "ok", outcome, <<>>)
               /\ UNCHANGED data
    /\ UNCHANGED <<server, db, cmd, nTicks, nCmds>>
    /\ UNCHANGED <<raceVars, authVars, diffVars, swVars>>

\* the answer to GET /api/live-session arrives; on success the events are
\* fired and the base class stores the returned snapshot
LiveSessionsResponse(s, outcome) ==
    /\ tick[s].pc = "live_sessions"
    /\ LET exc == _make_authenticated_request(outcome)
       IN IF exc = "return"
          THEN /\ data' = DriftBeaconData(tick[s].activities, server.live)
               /\ RefreshEnds(s, None, "ok", "ok",
                              _fire_session_events(tick[s].old_sessions, server.live,
                                                   tick[s].activities))
          ELSE /\ RefreshEnds(s, UpdateRaises(exc), "ok", outcome, <<>>)
               /\ UNCHANGED data
    /\ UNCHANGED <<server, db, cmd, nTicks, nCmds>>
    /\ UNCHANGED <<raceVars, authVars, diffVars, swVars>>

\* start_session / stop_session is called (by a switch of a loaded entry)
\* and sends its POST
CommandBegins(kind) ==
    /\ nCmds < MaxCmds
    /\ data.loaded
    /\ cmd.pc = "idle"
    /\ cmd' = [pc |-> "posting", kind |-> kind]
    /\ nCmds' = nCmds + 1

CommandInvoked(kind) ==
    /\ CommandBegins(kind)
    /\ UNCHANGED <<server, data, tick, ended, timer, db, nTicks>>
    /\ UNCHANGED <<raceVars, authVars, diffVars, swVars>>

start_session == CommandInvoked("start")

stop_session == CommandInvoked("stop")

\* the command ends: what it returned (or raised) and whether it had called
\* async_request_refresh
CommandEnds(outcome, returned, refresh) ==
    /\ cmd' = IdleCmd
    /\ ended' = [op |-> cmd.kind, outcome |-> outcome, returned |-> returned,
                 refresh |-> refresh]

\* the POST fails: the except clauses decide, no refresh is requested
CommandFails(outcome) ==
    /\ cmd.pc = "posting"
    /\ outcome # "ok"
    /\ CommandEnds(outcome, CommandReturns(_make_authenticated_request(outcome)), FALSE)
    /\ UNCHANGED <<server, data, tick, timer, db, nTicks, nCmds>>
    /\ UNCHANGED <<raceVars, authVars, diffVars, swVars>>

\* the POST succeeds and async_request_refresh starts a refresh at once
\* (no cooldown running, execute lock free); the command awaits it
CommandRefreshes ==
    /\ cmd.pc = "posting"
    /\ ~db.cooldown /\ ~db.lock
    /\ UpdateBegins("requested")
    /\ db' = [lock |-> TRUE, cooldown |-> FALSE, pending |-> FALSE]
    /\ cmd' = [cmd EXCEPT !.pc = "refreshing"]
    /\ UNCHANGED <<server, data, ended, nCmds>>
    /\ UNCHANGED <<raceVars, authVars, diffVars, swVars>>

\* the POST succeeds and async_request_refresh is debounced: during the
\* cooldown the refresh is left pending for the cooldown's end, under the
\* execute lock a refresh is already running; the command returns True
CommandDebounced ==
    /\ cmd.pc = "posting"
    /\ db.cooldown \/ db.lock
    /\ db' = IF db.cooldown THEN [db EXCEPT !.pending = TRUE] ELSE db
    /\ CommandEnds("ok", "True", TRUE)
    /\ UNCHANGED <<server, data, tick, timer, nTicks, nCmds>>
    /\ UNCHANGED <<raceVars, authVars, diffVars, swVars>>

\* the requested refresh has ended: the debouncer starts its cooldown and
\* releases its lock, and the command that awaited the refresh returns True
RequestedRefreshReturns ==
    /\ db.lock
    /\ tick["requested"].pc = "idle"
    /\ db' = [db EXCEPT !.lock = FALSE, !.cooldown = TRUE]
    /\ IF cmd.pc = "refreshing"
       THEN CommandEnds("ok", "True", TRUE)
       ELSE UNCHANGED <<cmd, ended>>
    /\ UNCHANGED <<server, data, tick, timer, nTicks, nCmds>>
    /\ UNCHANGED <<raceVars, authVars, diffVars, swVars>>

\* the debouncer's cooldown ends with a refresh pending: it runs now
CooldownRefreshes ==
    /\ db.cooldown /\ db.pending /\ ~db.lock
    /\ UpdateBegins("requested")
    /\ db' = [lock |-> TRUE, cooldown |-> FALSE, pending |-> FALSE]
    /\ UNCHANGED <<server, data, ended, cmd, nCmds>>
    /\ UNCHANGED <<raceVars, authVars, diffVars, swVars>>

\* the debouncer's cooldown ends with nothing pending
CooldownEnds ==
    /\ db.cooldown /\ ~db.pending
    /\ db' = [db EXCEPT !.cooldown = FALSE]
    /\ UNCHANGED <<server, data, tick, ended, timer, cmd, nTicks, nCmds>>
    /\ UNCHANGED <<raceVars, authVars, diffVars, swVars>>

(***************************************************************************)
(* The switch of one activity (switch.py): turning it off.                 *)
(***************************************************************************)
\* DriftBeaconActivitySwitch._get_activity: the activity of the switch in
\* the catalog of the snapshot held, <<>> when it is not there
_get_activity(activity_id) == get_activity(data.activities, activity_id)

\* any(session.get("activity_id") == self._activity_id for session in live_sessions)
has_active_session(activity_id) ==
    \E i \in 1..Len(data.live_sessions) : data.live_sessions[i].activity_id = activity_id

\* coordinator.async_request_refresh(): the debouncer starts a refresh at
\* once, or leaves it pending during the cooldown, or finds one running
async_request_refresh ==
    IF ~db.cooldown /\ ~db.lock
    THEN /\ UpdateBegins("requested")
         /\ db' = [lock |-> TRUE, cooldown |-> FALSE, pending |-> FALSE]
    ELSE /\ db' = IF db.cooldown THEN [db EXCEPT !.pending = TRUE] ELSE db
         /\ UNCHANGED <<tick, nTicks, timer>>

NoTurnOff == [pc |-> "idle", activity_id |-> None, command |-> None, refresh |-> FALSE]

\* what one async_turn_off did: the command it issued, if any, and whether
\* it called async_request_refresh itself
TurnedOff(activity_id, command, refresh) ==
    [pc |-> "called", activity_id |-> activity_id, command |-> command,
     refresh |-> refresh]

\* mutant: the switch does not look for a live session of its activity
async_turn_offUnchecked(activity_id) ==
    /\ data.loaded
    /\ IF _get_activity(activity_id) = <<>>
       THEN /\ sw' = TurnedOff(activity_id, None, FALSE)
            /\ UNCHANGED coordVars
       ELSE /\ CommandBegins("stop")
            /\ sw' = TurnedOff(activity_id, "stop", FALSE)
            /\ UNCHANGED <<server, data, tick, ended, timer, db, nTicks>>
    /\ UNCHANGED <<raceVars, authVars, diffVars>>

\* async_turn_off of the switch of activity_id, up to its first await
async_turn_off(activity_id) ==
    /\ data.loaded
    /\ IF _get_activity(activity_id) = <<>>
       THEN /\ sw' = TurnedOff(activity_id, None, FALSE)
            /\ UNCHANGED coordVars
       ELSE IF has_active_session(activity_id)
       THEN /\ CommandBegins("stop")
            /\ sw' = TurnedOff(activity_id, "stop", FALSE)
            /\ UNCHANGED <<server, data, tick, ended, timer, db, nTicks>>
       ELSE /\ async_request_refresh
            /\ sw' = TurnedOff(activity_id, None, TRUE)
            /\ UNCHANGED <<server, data, ended, cmd, nCmds>>
    /\ UNCHANGED <<raceVars, authVars, diffVars>>

SwitchIdle == sw = NoTurnOff

(***************************************************************************)
(* The protocol racer of the config flow: _detect_local_addon tries the    *)
(* DETECTION_CANDIDATES in order, and for each _detect_protocol_parallel   *)
(* races one _try_protocol task per transport.  A task and its network I/O *)
(* are separate: the answer arrives, then the task takes its next step and *)
(* completes; a task cancelled in between never returns its answer.        *)
(***************************************************************************)
Transports == {"https", "http"}

NumCandidates == 3

Hubs == {"hubA", "hubB"}

\* the JSON of GET /api/device/status
StatusJson(h) == [device |-> [id |-> h, name |-> IF h = "hubA" THEN "Attic" ELSE "Barn"]]

NewProbe == [task |-> "running", io |-> "pending", data |-> <<>>]

\* mutant: the winner is always reported as https
WinnerProtocolHttps(task) == "https"

\* protocol = "https" if task == https_task else "http"
WinnerProtocol(task) == IF task = "https" THEN "https" ELSE "http"

\* mutant: the pending tasks are left running
CancelNone(pending) == probe

\* for pending_task in pending: pending_task.cancel()
CancelPending(pending) ==
    [p \in Transports |->
        IF p \in pending /\ probe[p].task = "running"
        THEN [probe[p] EXCEPT !.task = "cancelled"] ELSE probe[p]]

\* _try_protocol's return value: the JSON on status 200, None otherwise
TaskResult(p) == IF probe[p].io = "ok" THEN probe[p].data ELSE <<>>

\* mutant: the wait ends only when every task completed (ALL_COMPLETED)
WaitReturnsAll(done) == done = Transports

\* asyncio.wait(tasks, return_when=asyncio.FIRST_COMPLETED) returns once a
\* task is done
WaitReturns(done) == done # {}

\* the orders in which "for task in done" may visit the set
Orders(S) == {o \in UNION {[1..n -> S] : n \in {Cardinality(S)}} :
                  \A i, j \in 1..Len(o) : i # j => o[i] # o[j]}

\* the first task of the visit whose result is not None, <<>> when none
RECURSIVE FirstSuccess(_)
FirstSuccess(o) ==
    IF o = <<>> THEN <<>>
    ELSE IF TaskResult(Head(o)) # <<>> THEN <<Head(o)>>
    ELSE FirstSuccess(Tail(o))

\* mutant: a success of the awaited task is dropped
AwaitedResultDropped(p) == <<>>

\* "result = await task; if result is not None: return (protocol, result)"
AwaitedResult(p) ==
    IF TaskResult(p) # <<>> THEN <<WinnerProtocol(p), TaskResult(p)>> ELSE <<>>

\* the dict _detect_local_addon returns for a race result (protocol, data)
DetectedHub(cand, result) ==
    <<[protocol |-> result[1], url |-> <<result[1], cand>>,
       id |-> result[2].device.id, name |-> result[2].device.name]>>

\* _detect_protocol_parallel returned `result` for candidate race.cand:
\* _detect_local_addon returns the hub, goes on to the next candidate, or
\* gives up after the last
RaceReturns(result, done, waited) ==
    /\ race' = [pc |-> IF result # <<>> THEN "detected"
                       ELSE IF race.cand < NumCandidates THEN "failed"
                       ELSE "not_detected",
                cand |-> race.cand, result |-> result, done |-> done,
                waited |-> waited]
    /\ hub' = IF result # <<>> THEN DetectedHub(race.cand, result) ELSE <<>>

\* the two tasks are created for the first or the next candidate, and the
\* racer waits in asyncio.wait(tasks, return_when=FIRST_COMPLETED)
RaceBegins ==
    /\ race.pc \in {"idle", "failed"}
    /\ race' = [pc |-> "waiting",
                cand |-> IF race.pc = "idle" THEN 1 ELSE race.cand + 1,
                result |-> <<>>, done |-> {}, waited |-> FALSE]
    /\ probe' = [p \in Transports |-> NewProbe]
    /\ order' = <<>>
    /\ UNCHANGED hub
    /\ UNCHANGED <<coordVars, authVars, diffVars, swVars>>

\* the answer of the request of probe p arrives (or the request fails:
\* connection error, timeout, non-200); a cancelled task's I/O may still end
IOArrives(p, ok, h) ==
    /\ race.pc # "idle"
    /\ probe[p].io = "pending"
    /\ probe' = [probe EXCEPT ![p].io = IF ok THEN "ok" ELSE "fail",
                              ![p].data = IF ok THEN StatusJson(h) ELSE <<>>]
    /\ UNCHANGED <<race, order, hub>>
    /\ UNCHANGED <<coordVars, authVars, diffVars, swVars>>

\* the task of probe p takes its step after its I/O ended and completes
TaskCompletes(p) ==
    /\ race.pc # "idle"
    /\ probe[p].task = "running"
    /\ probe[p].io # "pending"
    /\ probe' = [probe EXCEPT ![p].task = "done"]
    /\ order' = Append(order, p)
    /\ UNCHANGED <<race, hub>>
    /\ UNCHANGED <<coordVars, authVars, diffVars, swVars>>

\* asyncio.wait returns (done, pending); "for task in done" returns the
\* first success it meets and cancels the pending tasks
RaceWakes ==
    /\ race.pc = "waiting"
    /\ LET done == {p \in Transports : probe[p].task = "done"}
           pending == Transports \ done
       IN /\ WaitReturns(done)
          /\ \E o \in Orders(done) :
                LET first == FirstSuccess(o)
                IN IF first # <<>>
                   THEN /\ probe' = CancelPending(pending)
                        /\ RaceReturns(<<WinnerProtocol(first[1]), TaskResult(first[1])>>,
                                       done, FALSE)
                   ELSE IF pending # {}
                   THEN /\ race' = [race EXCEPT !.pc = "awaiting", !.done = done,
                                                !.waited = TRUE]
                        /\ UNCHANGED <<probe, hub>>
                   ELSE /\ RaceReturns(<<>>, done, FALSE)
                        /\ UNCHANGED probe
    /\ UNCHANGED order
    /\ UNCHANGED <<coordVars, authVars, diffVars, swVars>>

\* "result = await task" for the pending task, once it completed
RaceAwaited ==
    /\ race.pc = "awaiting"
    /\ \E p \in Transports \ race.done :
          /\ probe[p].task = "done"
          /\ RaceReturns(AwaitedResult(p), race.done, TRUE)
    /\ UNCHANGED <<probe, order>>
    /\ UNCHANGED <<coordVars, authVars, diffVars, swVars>>

(***************************************************************************)
(* Authentication (config_flow.py): the setup step (async_step_user) and   *)
(* the reauthentication step (async_step_reauth_confirm) call              *)
(* _authenticate_and_create_session, which runs the three-request          *)
(* handshake _do_auth on one transport, or on https and then on http.      *)
(* reqs is the list of the requests the current call has sent, each with   *)
(* the client session it went through, its transport and how it ended.     *)
(***************************************************************************)
API_SYSTEM_STATUS == "/api/device/status"

API_AUTH_SIGN_IN == "/api/auth/sign-in/email"

API_AUTH_CREATE_SERVER_SESSION == "/api/auth/create-server-session"

UserIds == {"u1", "u2"}

Tokens == {"t1", "t2"}

\* the JSON of POST /api/auth/sign-in/email
UserJson(u) == [user |-> [id |-> u, email |-> IF u = "u1" THEN "ann@example.org"
                                                ELSE "bob@example.org"]]

\* the JSON of POST /api/auth/create-server-session
SessionJson(t) == [serverSessionToken |-> t,
                   expiresAt |-> IF t = "t1" THEN "2027-01-01" ELSE "2027-06-01"]

\* entry.data of the configured connection; protocol is None in an entry
\* written before the protocol was recorded
StoredEntry(protocol) ==
    [host |-> "local-drift-beacon", port |-> 9000, protocol |-> protocol,
     email |-> "ann@example.org", user_id |-> "u1",
     session_token |-> "t0", session_expires |-> "2026-01-01",
     hub_id |-> "hubA", hub_name |-> "Attic"]

\* how a request of the handshake can end: a status (201 stands for any
\* status below 400 other than 200, with a JSON body), a TLS failure (https
\* only), a refused connection, a connection the peer drops, a timeout
HsOutcomes(protocol) ==
    {"200", "201", "401", "404", "500", "connector_error", "disconnected", "timeout"}
        \cup (IF protocol = "https" THEN {"ssl_error"} ELSE {})

\* mutant: the sign-in step has no check of its own for 401
StepRaisesUnchecked(endpoint, outcome) ==
    CASE outcome \in {"200", "201"} -> None
      [] outcome = "401" ->
            IF endpoint = "/api/auth/create-server-session" THEN "SessionCreationError"
            ELSE "ClientResponseError:401"
      [] outcome = "404" -> "ClientResponseError:404"
      [] outcome = "500" -> "ClientResponseError:500"
      [] outcome = "ssl_error" -> "ClientSSLError"
      [] outcome = "connector_error" -> "ClientConnectorError"
      [] outcome = "disconnected" -> "ServerDisconnectedError"
      [] outcome = "timeout" -> "TimeoutError"

\* what the request to `endpoint` raises in _do_auth (None: nothing, the
\* JSON body is read): raise_for_status raises for a status of 400 or more
StepRaises(endpoint, outcome) ==
    CASE outcome \in {"200", "201"} -> None
      [] outcome = "401" ->
            IF endpoint = API_AUTH_SIGN_IN THEN "InvalidAuthError"
            ELSE IF endpoint = API_AUTH_CREATE_SERVER_SESSION THEN "SessionCreationError"
            ELSE "ClientResponseError:401"
      [] outcome = "404" -> "ClientResponseError:404"
      [] outcome = "500" -> "ClientResponseError:500"
      [] outcome = "ssl_error" -> "ClientSSLError"
      [] outcome = "connector_error" -> "ClientConnectorError"
      [] outcome = "disconnected" -> "ServerDisconnectedError"
      [] outcome = "timeout" -> "TimeoutError"

\* aiohttp.ClientConnectionError and its subclasses
IsClientConnectionError(exc) ==
    exc \in {"ClientSSLError", "ClientConnectorError", "ServerDisconnectedError"}

IsClientResponseError(exc) ==
    exc \in {"ClientResponseError:401", "ClientResponseError:404", "ClientResponseError:500"}

\* mutant: the https attempt falls back on every exception
FallsBackAlways(exc) == TRUE

\* the except clause around the https attempt of the unhinted mode
FallsBack(exc) == exc \in {"TimeoutError", "ClientSSLError", "ClientConnectorError"}

\* errors["base"] of async_step_user for an exception of the try block
\* (AbortFlow, raised by _abort_if_unique_id_configured, is an Exception)
UserStepError(exc) ==
    IF IsClientConnectionError(exc) THEN "cannot_connect"
    ELSE IF IsClientResponseError(exc)
         THEN (IF exc = "ClientResponseError:404" THEN "invalid_server" ELSE "server_error")
    ELSE IF exc = "InvalidAuthError" THEN "invalid_auth"
    ELSE IF exc = "SessionCreationError" THEN "session_creation_failed"
    ELSE "unknown"

\* mutant: a refused session is reported as bad credentials
ReauthStepErrorMasked(exc) ==
    IF exc \in {"InvalidAuthError", "SessionCreationError"} THEN "invalid_auth"
    ELSE IF exc \in {"ClientSSLError", "ClientConnectorError", "ServerDisconnectedError"}
         THEN "cannot_connect"
    ELSE "unknown"

\* errors["base"] of async_step_reauth_confirm for an exception
ReauthStepError(exc) ==
    IF exc = "InvalidAuthError" THEN "invalid_auth"
    ELSE IF exc = "SessionCreationError" THEN "session_creation_failed"
    ELSE IF IsClientConnectionError(exc) THEN "cannot_connect"
    ELSE "unknown"

\* the session a handshake sends its requests through: a ClientSession of
\* its own with its own cookie jar, not async_get_clientsession(hass)
TempSession(id) == [kind |-> "temp", id |-> id]

SharedSession == [kind |-> "hass", id |-> 0]

Request(session, protocol, endpoint) ==
    [session |-> session, protocol |-> protocol, endpoint |-> endpoint,
     outcome |-> "pending"]

\* the request in flight has ended with `outcome`
Answered(outcome) == [reqs EXCEPT ![Len(reqs)].outcome = outcome]

IdleFlow == [step |-> None, pc |-> "idle", hint |-> None, errors |-> None,
             raised |-> None,
             auth_data |-> <<>>, created |-> <<>>]

IdleHandshake == [pc |-> "idle", protocol |-> None, scope |-> 0, hub_info |-> <<>>,
                  user_data |-> <<>>, session_data |-> <<>>]

\* mutant: the temporary session is never closed
ReleasedNever(scope) == {}

\* the temporary sessions "async with aiohttp.ClientSession(...)" closes
\* when the block of _do_auth is left
Released(scope) == {scope}

\* the session the requests of a handshake go through
HandshakeSession(id) == TempSession(id)

\* mutant: the hint is ignored, https is always tried first
FirstProtocolHttps(hint) == "https"

\* the transport of the first (or only) handshake of a call
FirstProtocol(hint) == IF hint = None THEN "https" ELSE hint

\* the transport async_step_reauth_confirm passes as the hint
ReauthProtocol(entry_data) ==
    IF entry_data.protocol = None THEN "https" ELSE entry_data.protocol

\* _do_auth begins on `protocol`: it opens a temporary session of its own
\* and sends the identity request; `released` are the sessions closed on the
\* way, `log` the requests sent so far
DoAuthBegins(protocol, released, log) ==
    LET id == IF log = <<>> THEN 1 ELSE log[Len(log)].session.id + 1
    IN /\ scopes' = (scopes \ released) \cup {id}
       /\ hs' = [IdleHandshake EXCEPT !.pc = "status", !.protocol = protocol,
                                      !.scope = id]
       /\ reqs' = Append(log, Request(HandshakeSession(id), protocol, API_SYSTEM_STATUS))

\* mutant: the user id is taken from the hub's identity
AuthDataMixed(hub_info, user_data, session_data, protocol) ==
    [user_id |-> hub_info.device.id, user_email |-> user_data.user.email,
     session_token |-> session_data.serverSessionToken,
     expires_at |-> session_data.expiresAt,
     hub_id |-> hub_info.device.id, hub_name |-> hub_info.device.name,
     protocol |-> protocol]

\* the dict _do_auth returns, with the protocol added by its caller
AuthData(hub_info, user_data, session_data, protocol) ==
    [user_id |-> user_data.user.id, user_email |-> user_data.user.email,
     session_token |-> session_data.serverSessionToken,
     expires_at |-> session_data.expiresAt,
     hub_id |-> hub_info.device.id, hub_name |-> hub_info.device.name,
     protocol |-> protocol]

\* the data of the entry async_step_user creates
CreatedEntry(auth_data) ==
    [host |-> "local-drift-beacon", port |-> 9000, protocol |-> auth_data.protocol,
     email |-> auth_data.user_email, user_id |-> auth_data.user_id,
     session_token |-> auth_data.session_token,
     session_expires |-> auth_data.expires_at,
     hub_id |-> auth_data.hub_id, hub_name |-> auth_data.hub_name]

\* mutant: only the token is written
UpdatedEntryTokenOnly(entry_data, auth_data) ==
    [entry_data EXCEPT !.session_token = auth_data.session_token]

\* the entry after async_update_reload_and_abort(data_updates=...)
UpdatedEntry(entry_data, auth_data) ==
    [entry_data EXCEPT !.session_token = auth_data.session_token,
                       !.session_expires = auth_data.expires_at]

\* the step shows its form again with errors["base"] set
ShowsForm(error, exc) ==
    flow' = [flow EXCEPT !.pc = "form", !.errors = error, !.raised = exc]

\* _authenticate_and_create_session returned auth_data to async_step_user:
\* the unique id is set and the entry created, unless an entry with that
\* unique id exists (AbortFlow, caught by "except Exception")
UserStepReturns(auth_data) ==
    /\ IF auth_data.hub_id = entry.hub_id /\ auth_data.user_id = entry.user_id
       THEN ShowsForm(UserStepError("AbortFlow"), "AbortFlow")
       ELSE flow' = [flow EXCEPT !.pc = "create_entry", !.auth_data = <<auth_data>>,
                                 !.created = <<CreatedEntry(auth_data)>>]
    /\ UNCHANGED entry

\* mutant: any account passes the check
SameUserAlways(auth_data, stored_user_id) == TRUE

\* "Security: verify same user"
SameUser(auth_data, stored_user_id) == auth_data.user_id = stored_user_id

\* mutant: the new token is stored before the user is compared
ReauthStepReturnsAdopts(auth_data) ==
    /\ entry' = [entry EXCEPT !.session_token = auth_data.session_token,
                              !.session_expires = auth_data.expires_at]
    /\ IF auth_data.user_id # entry.user_id
       THEN flow' = [flow EXCEPT !.pc = "form", !.errors = "wrong_account",
                                 !.auth_data = <<auth_data>>]
       ELSE flow' = [flow EXCEPT !.pc = "abort", !.auth_data = <<auth_data>>]

\* ... or to async_step_reauth_confirm: same user, or wrong_account
ReauthStepReturns(auth_data) ==
    IF ~SameUser(auth_data, entry.user_id)
    THEN /\ flow' = [flow EXCEPT !.pc = "form", !.errors = "wrong_account",
                                 !.auth_data = <<auth_data>>]
         /\ UNCHANGED entry
    ELSE /\ flow' = [flow EXCEPT !.pc = "abort", !.auth_data = <<auth_data>>]
         /\ entry' = UpdatedEntry(entry, auth_data)

\* the handshake in flight raises exc after the requests in `log`: the
\* unhinted https attempt falls back to http on the exceptions it catches,
\* every other exception reaches the step that called
HandshakeRaises(exc, log) ==
    IF flow.hint = None /\ hs.protocol = "https" /\ FallsBack(exc)
    THEN /\ DoAuthBegins("http", Released(hs.scope), log)
         /\ UNCHANGED <<entry, flow>>
    ELSE /\ scopes' = scopes \ Released(hs.scope)
         /\ hs' = [hs EXCEPT !.pc = "raised"]
         /\ reqs' = log
         /\ ShowsForm(IF flow.step = "user" THEN UserStepError(exc)
                      ELSE ReauthStepError(exc), exc)
         /\ UNCHANGED entry

\* a request timeout (API_TIMEOUT) cannot end a request of the unhinted
\* https attempt: wait_for(PROTOCOL_DETECTION_TIMEOUT) expires before it
CanEnd(outcome) ==
    /\ outcome \in HsOutcomes(hs.protocol)
    /\ outcome = "timeout" => ~(flow.hint = None /\ hs.protocol = "https")

\* async_step_user(user_input) / async_step_reauth_confirm(user_input) up to
\* the first request of the handshake
Submits(step, hint) ==
    /\ flow.pc # "auth"
    /\ flow' = [IdleFlow EXCEPT !.step = step, !.pc = "auth", !.hint = hint]
    /\ DoAuthBegins(FirstProtocol(hint), {}, <<>>)
    /\ UNCHANGED entry
    /\ UNCHANGED <<coordVars, raceVars, diffVars, swVars>>

async_step_user == Submits("user", None)

async_step_reauth_confirm == Submits("reauth_confirm", ReauthProtocol(entry))

\* GET /api/device/status ends
StatusResponse(outcome, h) ==
    /\ hs.pc = "status"
    /\ CanEnd(outcome)
    /\ LET exc == StepRaises(API_SYSTEM_STATUS, outcome)
       IN IF exc = None
          THEN /\ hs' = [hs EXCEPT !.pc = "sign_in", !.hub_info = <<StatusJson(h)>>]
               /\ reqs' = Append(Answered(outcome),
                                 Request(HandshakeSession(hs.scope), hs.protocol,
                                         API_AUTH_SIGN_IN))
               /\ UNCHANGED <<entry, flow, scopes>>
          ELSE HandshakeRaises(exc, Answered(outcome))
    /\ UNCHANGED <<coordVars, raceVars, diffVars, swVars>>

\* POST /api/auth/sign-in/email ends
SignInResponse(outcome, u) ==
    /\ hs.pc = "sign_in"
    /\ CanEnd(outcome)
    /\ LET exc == StepRaises(API_AUTH_SIGN_IN, outcome)
       IN IF exc = None
          THEN /\ hs' = [hs EXCEPT !.pc = "create_session", !.user_data = <<UserJson(u)>>]
               /\ reqs' = Append(Answered(outcome),
                                 Request(HandshakeSession(hs.scope), hs.protocol,
                                         API_AUTH_CREATE_SERVER_SESSION))
               /\ UNCHANGED <<entry, flow, scopes>>
          ELSE HandshakeRaises(exc, Answered(outcome))
    /\ UNCHANGED <<coordVars, raceVars, diffVars, swVars>>

\* POST /api/auth/create-server-session ends; on success _do_auth returns,
\* its session is closed and the step that called goes on
CreateSessionResponse(outcome, t) ==
    /\ hs.pc = "create_session"
    /\ CanEnd(outcome)
    /\ LET exc == StepRaises(API_AUTH_CREATE_SERVER_SESSION, outcome)
           auth_data == AuthData(hs.hub_info[1], hs.user_data[1], SessionJson(t),
                                 hs.protocol)
       IN IF exc = None
          THEN /\ hs' = [hs EXCEPT !.pc = "returned", !.session_data = <<SessionJson(t)>>]
               /\ reqs' = Answered(outcome)
               /\ scopes' = scopes \ Released(hs.scope)
               /\ IF flow.step = "user" THEN UserStepReturns(auth_data)
                  ELSE ReauthStepReturns(auth_data)
          ELSE HandshakeRaises(exc, Answered(outcome))
    /\ UNCHANGED <<coordVars, raceVars, diffVars, swVars>>

\* asyncio.wait_for(..., PROTOCOL_DETECTION_TIMEOUT) expires during the
\* unhinted https attempt: the handshake is cancelled and TimeoutError raised
DetectionTimeout ==
    /\ hs.pc \in {"status", "sign_in", "create_session"}
    /\ flow.hint = None /\ hs.protocol = "https"
    /\ HandshakeRaises("TimeoutError", Answered("cancelled"))
    /\ UNCHANGED <<coordVars, raceVars, diffVars, swVars>>

AuthIdle ==
    /\ flow = IdleFlow
    /\ hs = IdleHandshake
    /\ reqs = <<>>
    /\ scopes = {}

RaceIdle ==
    /\ race = [pc |-> "idle", cand |-> 0, result |-> <<>>, done |-> {}, waited |-> FALSE]
    /\ probe = [p \in Transports |-> NewProbe]
    /\ order = <<>>
    /\ hub = <<>>

(***************************************************************************)
(* One call of _fire_session_events on its own: the arguments are drawn    *)
(* from the session lists of at most MaxLen sessions and the catalogs.     *)
(***************************************************************************)
DiffSessionIds == {"s1", "s2"}

\* a session's activity_id is an activity id or null
DiffSessions == {Session(s, a) : s \in DiffSessionIds, a \in ActivityIds \cup {None}}

SessionLists == UNION {[1..n -> DiffSessions] : n \in 0..MaxLen}

DiffCall(old_sessions, new_sessions, activities) ==
    [pc |-> "called", old_sessions |-> old_sessions, new_sessions |-> new_sessions,
     activities |-> activities, fired |-> <<>>, log |-> <<>>]

\* the call runs to its end
FiresSessionEvents ==
    /\ diff.pc = "called"
    /\ LET fired == _fire_session_events(diff.old_sessions, diff.new_sessions,
                                         diff.activities)
       IN diff' = [diff EXCEPT !.pc = "returned", !.fired = fired,
                               !.log = LogRecords(fired)]
    /\ UNCHANGED <<coordVars, raceVars, authVars, swVars>>

DiffIdle == diff = [DiffCall(<<>>, <<>>, <<>>) EXCEPT !.pc = "idle"]

CoordIdle ==
    /\ server = [activities |-> <<Activity("a1"), Activity("a2")>>, live |-> <<>>]
    /\ data = NoData
    /\ tick = [s \in Slots |-> IdleTick]
    /\ ended = NothingEnded
    /\ timer = TRUE
    /\ db = [lock |-> FALSE, cooldown |-> FALSE, pending |-> FALSE]
    /\ cmd = IdleCmd
    /\ nTicks = 0
    /\ nCmds = 0

Init ==
    /\ CoordIdle
    /\ RaceIdle
    /\ AuthIdle
    /\ DiffIdle
    /\ SwitchIdle
    /\ entry = StoredEntry("https")

Next ==
    \/ DeviceOpensSession
    \/ DeviceClosesSession
    \/ DeviceChangesSession
    \/ DeviceEditsCatalog
    \/ ScheduledRefresh
    \/ \E s \in Slots, outcome \in Outcomes : ActivitiesResponse(s, outcome)
    \/ \E s \in Slots, outcome \in Outcomes : LiveSessionsResponse(s, outcome)
    \/ start_session
    \/ stop_session
    \/ \E outcome \in Outcomes : CommandFails(outcome)
    \/ CommandRefreshes
    \/ CommandDebounced
    \/ RequestedRefreshReturns
    \/ CooldownRefreshes
    \/ CooldownEnds

Spec == Init /\ [][Next]_vars

RaceNext ==
    \/ RaceBegins
    \/ \E p \in Transports, ok \in BOOLEAN, h \in Hubs : IOArrives(p, ok, h)
    \/ \E p \in Transports : TaskCompletes(p)
    \/ RaceWakes
    \/ RaceAwaited

RaceSpec == Init /\ [][RaceNext]_vars

AuthInit ==
    /\ \E protocol \in Transports \cup {None} : entry = StoredEntry(protocol)
    /\ CoordIdle
    /\ RaceIdle
    /\ AuthIdle
    /\ DiffIdle
    /\ SwitchIdle

AuthNext ==
    \/ async_step_user
    \/ async_step_reauth_confirm
    \/ \E outcome \in HsOutcomes("https"), h \in Hubs : StatusResponse(outcome, h)
    \/ \E outcome \in HsOutcomes("https"), u \in UserIds : SignInResponse(outcome, u)
    \/ \E outcome \in HsOutcomes("https"), t \in Tokens : CreateSessionResponse(outcome, t)
    \/ DetectionTimeout

AuthSpec == AuthInit /\ [][AuthNext]_vars

\* The stored connection over its life: polling and commands against a
\* device at rest, and the steps of the config flow, interleaved.
EntryNext ==
    \/ ScheduledRefresh
    \/ \E s \in Slots, outcome \in {"ok", "401", "conn_error"} : ActivitiesResponse(s, outcome)
    \/ \E s \in Slots, outcome \in {"ok", "401", "conn_error"} : LiveSessionsResponse(s, outcome)
    \/ start_session
    \/ stop_session
    \/ \E outcome \in {"401", "http_error"} : CommandFails(outcome)
    \/ CommandRefreshes
    \/ CommandDebounced
    \/ RequestedRefreshReturns
    \/ CooldownRefreshes
    \/ CooldownEnds
    \/ async_step_user
    \/ async_step_reauth_confirm
    \/ \E outcome \in {"200", "401", "500", "disconnected"} : StatusResponse(outcome, "hubA")
    \/ \E outcome \in {"200", "401", "500", "disconnected"}, u \in UserIds :
            SignInResponse(outcome, u)
    \/ \E outcome \in {"200", "401", "500", "disconnected"}, t \in Tokens :
            CreateSessionResponse(outcome, t)

EntrySpec == AuthInit /\ [][EntryNext]_vars

DiffInit ==
    /\ \E old_sessions \in SessionLists, new_sessions \in SessionLists,
          activities \in Catalogs :
            diff = DiffCall(old_sessions, new_sessions, activities)
    /\ CoordIdle
    /\ RaceIdle
    /\ AuthIdle
    /\ SwitchIdle
    /\ entry = StoredEntry("https")

DiffNext == FiresSessionEvents

DiffSpec == DiffInit /\ [][DiffNext]_vars

\* The switches of a loaded entry are turned off while the coordinator
\* polls a device whose sessions and catalog change.
SwitchNext ==
    \/ DeviceOpensSession
    \/ DeviceClosesSession
    \/ DeviceChangesSession
    \/ DeviceEditsCatalog
    \/ ScheduledRefresh
    \/ \E s \in Slots, outcome \in {"ok", "conn_error"} : ActivitiesResponse(s, outcome)
    \/ \E s \in Slots, outcome \in {"ok", "conn_error"} : LiveSessionsResponse(s, outcome)
    \/ \E activity_id \in ActivityIds : async_turn_off(activity_id)
    \/ \E outcome \in {"conn_error"} : CommandFails(outcome)
    \/ CommandRefreshes
    \/ CommandDebounced
    \/ RequestedRefreshReturns
    \/ CooldownRefreshes
    \/ CooldownEnds

SwitchSpec == Init /\ [][SwitchNext]_vars

(***************************************************************************)
(* Properties of the polling coordinator (checked under Spec).             *)
(***************************************************************************)
BadOutcomes == {"http_error", "conn_error", "timeout"}

RefreshEnded == ended.op = "refresh"

CommandEnded == ended.op \in {"start", "stop"}

\* the step in which the refresh of slot s ends successfully
TickSucceeds(s) ==
    /\ tick[s].pc = "live_sessions"
    /\ tick'[s].pc = "idle"
    /\ ended'.op = "refresh"
    /\ ended'.raised = None

\* C1: the events of a successful tick are the diff of the live sessions of
\* the most recent successful tick before it (the snapshot the coordinator
\* holds when the tick ends, the empty list when it holds none) against the
\* live sessions and the catalog the tick fetched.
C1_EventsFromLatestSnapshot ==
    [][\A s \in Slots :
         TickSucceeds(s) =>
            ended'.fired = _fire_session_events(OldSessions(data), data'.live_sessions,
                                                data'.activities)]_vars

\* C2: a 401 on either fetch ends the tick with ConfigEntryAuthFailed, and
\* the tick sent one request for activities and, after a 401 on activities,
\* none for live sessions (one, and no more, when the 401 came on live
\* sessions).
C2_UnauthorizedIsDistinct ==
    /\ RefreshEnded =>
          /\ ended.activities = "401" =>
                /\ ended.raised = "ConfigEntryAuthFailed"
                /\ ended.nActivities = 1 /\ ended.nLive = 0
          /\ ended.live = "401" =>
                /\ ended.raised = "ConfigEntryAuthFailed"
                /\ ended.nActivities = 1 /\ ended.nLive = 1
    /\ \A s \in Slots : tick[s].nActivities <= 1 /\ tick[s].nLive <= 1

C2_Witness ==
    /\ RefreshEnded
    /\ ended.activities = "401"
    /\ ended.slot = "requested"
    /\ data.loaded

\* C3: a fetch that fails otherwise than by 401 (error status, connection
\* error, timeout) ends the tick with the transient communication failure,
\* and the tick sent at most one request per endpoint.
C3_OtherErrorsAreTransient ==
    (RefreshEnded /\ (ended.activities \in BadOutcomes \/ ended.live \in BadOutcomes)) =>
        /\ ended.raised = "UpdateFailed: Error communicating"
        /\ ended.nActivities <= 1 /\ ended.nLive <= 1

\* C4: every start_session / stop_session call that returned has requested
\* a refresh, whatever the outcome of its request.
C4_CommandAlwaysRefreshes ==
    CommandEnded => ended.refresh

\* C5 as claimed: start_session / stop_session return a boolean for every
\* outcome of the request, True exactly when the request succeeded.
C5_CommandReturnsBoolean ==
    CommandEnded =>
        /\ ended.returned \in {"True", "False"}
        /\ ended.returned = "True" <=> ended.outcome = "ok"

\* C5 amended: for every outcome other than 401 the command returns a
\* boolean, True exactly when the request succeeded; on a 401 it raises
\* ConfigEntryAuthFailed to its caller.
C5_CommandReturnsBooleanOrAuthFailed ==
    CommandEnded =>
        IF ended.outcome = "401"
        THEN ended.returned = "raise ConfigEntryAuthFailed"
        ELSE /\ ended.returned \in {"True", "False"}
             /\ ended.returned = "True" <=> ended.outcome = "ok"

C5_Witness ==
    /\ ended.op = "stop"
    /\ ended.outcome = "timeout"
    /\ ended.returned = "False"

\* C6: at most one tick is in flight: the scheduled and the requested
\* refresh are never both between their start and their end.
C6_OneTickInFlight ==
    ~(tick["scheduled"].pc # "idle" /\ tick["requested"].pc # "idle")

(***************************************************************************)
(* Properties of the protocol racer (checked under RaceSpec).              *)
(***************************************************************************)
RaceReturned == race.pc \in {"failed", "detected", "not_detected"}

Succeeded == {p \in Transports : probe[p].io = "ok"}

Failed == {p \in Transports : probe[p].io = "fail"}

\* C7: when exactly one of the two probes succeeds and the other fails, the
\* race returns the succeeding transport with that probe's data, in every
\* completion order.
C7_OnlySuccessWins ==
    \A p \in Transports :
        (RaceReturned /\ Succeeded = {p} /\ Failed = Transports \ {p}) =>
            race.result = <<p, probe[p].data>>

\* the failing probe completed first, and alone
C7_Witness ==
    /\ race.pc = "detected"
    /\ Succeeded = {"http"} /\ Failed = {"https"}
    /\ order = <<"https", "http">>
    /\ race.waited

\* C8: the race returns None exactly when every probe failed; when the
\* probe that completed first (alone) failed, the race awaited the other
\* one and returned its success if it succeeded.
C8_NoneIffAllFailed ==
    RaceReturned =>
        /\ race.result = <<>> <=> Failed = Transports
        /\ (race.done = {order[1]} /\ order[1] \in Failed) =>
              /\ race.waited
              /\ \A p \in Transports \ race.done :
                    p \in Succeeded => race.result = <<p, probe[p].data>>

C8_Witness ==
    /\ race.pc = "detected"
    /\ race.waited
    /\ race.done = {"http"}
    /\ race.result[1] = "https"

C10_OnlyWinnerApplied ==
    /\ race.pc = "detected" =>
          LET w == race.result[1]
          IN /\ probe[w].task = "done" /\ probe[w].io = "ok"
             /\ race.result[2] = probe[w].data
             /\ hub = DetectedHub(race.cand, <<w, probe[w].data>>)
             /\ \A q \in Transports \ {w} : probe[q].task \in {"cancelled", "done"}
    /\ race.pc # "detected" => hub = <<>>

\* the cancelled probe's I/O ended after the cancellation, with other data
C10_Witness ==
    /\ race.pc = "detected"
    /\ hub # <<>>
    /\ \E q \in Transports :
          /\ probe[q].task = "cancelled"
          /\ probe[q].io = "ok"
          /\ probe[q].data.device.id # hub[1].id

(***************************************************************************)
(* Properties of authentication (checked under AuthSpec; C19 under         *)
(* EntrySpec).                                                             *)
(***************************************************************************)
Indices == 1..Len(reqs)

\* the ways a request fails below HTTP: TLS failure, refused connection,
\* dropped connection, and the dedicated timeout of the https attempt
TransportFailures == {"ssl_error", "connector_error", "disconnected", "cancelled"}

Answers == {"200", "201"}

\* C11: in the unhinted mode the first request goes over https; an https
\* request that ends in the dedicated timeout or a transport-level failure
\* is followed at once by the identity request of one handshake on http
\* (the authentication has not failed), and no http request is sent while
\* an https request is still in flight.
C11_SecureFailureFallsBack ==
    (flow.hint = None /\ reqs # <<>>) =>
        /\ reqs[1].protocol = "https"
        /\ \A i \in Indices :
              (reqs[i].protocol = "https" /\ reqs[i].outcome \in TransportFailures) =>
                  /\ i < Len(reqs)
                  /\ reqs[i + 1].protocol = "http"
                  /\ reqs[i + 1].endpoint = API_SYSTEM_STATUS
        /\ \A i, j \in Indices :
              (i < j /\ reqs[j].protocol = "http") => reqs[i].outcome # "pending"
        /\ Cardinality({i \in Indices : /\ reqs[i].protocol = "http"
                                        /\ reqs[i].endpoint = API_SYSTEM_STATUS}) <= 1

\* C12: with a hint every request of the call goes over the hinted
\* transport, and the hint of a reauthentication is the transport recorded
\* in the stored entry, https when none is recorded.
C12_HintedStaysOnTransport ==
    /\ flow.hint # None => \A i \in Indices : reqs[i].protocol = flow.hint
    /\ flow.step = "reauth_confirm" =>
          flow.hint = (IF entry.protocol \in Transports THEN entry.protocol ELSE "https")

C12_Witness ==
    /\ flow.step = "reauth_confirm" /\ flow.pc = "form"
    /\ entry.protocol = "http"
    /\ Len(reqs) = 2 /\ reqs[2].outcome = "connector_error"
    /\ \A i \in Indices : reqs[i].protocol = "http"

\* C13: a 401 on sign-in ends the authentication with InvalidAuthError, and
\* the sign-in request is the last request sent.
C13_SignIn401IsInvalidAuth ==
    \A i \in Indices :
        (reqs[i].endpoint = API_AUTH_SIGN_IN /\ reqs[i].outcome = "401") =>
            /\ i = Len(reqs)
            /\ flow.pc = "form" /\ flow.raised = "InvalidAuthError"

C13_Witness ==
    /\ flow.step = "user" /\ flow.raised = "InvalidAuthError"
    /\ Len(reqs) = 2 /\ reqs[2].outcome = "401" /\ reqs[2].protocol = "https"

\* C14: a 401 on session creation ends the authentication with
\* SessionCreationError, reported as session_creation_failed by the setup
\* step and by the reauthentication step.
C14_Session401IsDistinct ==
    \A i \in Indices :
        (reqs[i].endpoint = API_AUTH_CREATE_SERVER_SESSION /\ reqs[i].outcome = "401") =>
            /\ flow.raised = "SessionCreationError"
            /\ flow.raised # "InvalidAuthError"
            /\ flow.pc = "form" /\ flow.errors = "session_creation_failed"

C14_Witness ==
    /\ flow.step = "reauth_confirm" /\ flow.errors = "session_creation_failed"
    /\ Len(reqs) = 3 /\ reqs[3].outcome = "401" /\ reqs[2].outcome = "200"

HandshakeOrder == <<API_SYSTEM_STATUS, API_AUTH_SIGN_IN, API_AUTH_CREATE_SERVER_SESSION>>

\* the place of request i among the requests of its handshake
StepOf(i) == Cardinality({j \in Indices : j <= i /\ reqs[j].session = reqs[i].session})

\* C15: the requests of one handshake are the identity fetch, the sign-in
\* and the session request in that order, each sent only after the one
\* before it was answered without error; auth data exist only once the third
\* was answered, and hold the hub of the first answer, the user of the
\* second and the token and expiry of the third.
C15_StepsInOrder ==
    /\ \A i \in Indices :
          /\ StepOf(i) <= 3
          /\ reqs[i].endpoint = HandshakeOrder[StepOf(i)]
          /\ StepOf(i) > 1 => /\ reqs[i - 1].session = reqs[i].session
                              /\ reqs[i - 1].outcome \in Answers
    /\ flow.auth_data # <<>> =>
          /\ reqs # <<>>
          /\ StepOf(Len(reqs)) = 3
          /\ reqs[Len(reqs)].outcome \in Answers
          /\ flow.auth_data[1].hub_id = hs.hub_info[1].device.id
          /\ flow.auth_data[1].hub_name = hs.hub_info[1].device.name
          /\ flow.auth_data[1].user_id = hs.user_data[1].user.id
          /\ flow.auth_data[1].user_email = hs.user_data[1].user.email
          /\ flow.auth_data[1].session_token = hs.session_data[1].serverSessionToken
          /\ flow.auth_data[1].expires_at = hs.session_data[1].expiresAt
          /\ flow.auth_data[1].protocol = reqs[Len(reqs)].protocol

C15_Witness ==
    /\ flow.pc = "create_entry"
    /\ Len(reqs) = 5 /\ reqs[2].outcome = "cancelled"
    /\ flow.auth_data[1].hub_id = "hubB"
    /\ flow.auth_data[1].user_id = "u2"
    /\ flow.auth_data[1].session_token = "t2"
    /\ flow.auth_data[1].protocol = "http"

\* C16: while a handshake is in flight its temporary session is the only
\* one open, and none is open once it ended, however it ended; the two
\* attempts of an unhinted call use different sessions, and no request of a
\* handshake goes through the session shared with the coordinator.
C16_ScopeReleased ==
    /\ scopes = (IF hs.pc \in {"status", "sign_in", "create_session"}
                 THEN {hs.scope} ELSE {})
    /\ \A i \in Indices : reqs[i].session.kind = "temp" /\ reqs[i].session # SharedSession
    /\ \A i, j \in Indices :
          (reqs[i].session = reqs[j].session) <=> (reqs[i].protocol = reqs[j].protocol)

C16_Witness ==
    /\ flow.hint = None /\ hs.protocol = "http" /\ hs.pc = "sign_in"
    /\ reqs[2].outcome = "cancelled"
    /\ scopes = {2}

\* C17: a status other than 200 on the identity fetch or on the sign-in
\* ends the handshake with an exception (InvalidAuthError exactly for a
\* 401 on sign-in), and the handshake sends no later request.
C17_Non200Aborts ==
    \A i \in Indices :
        (/\ reqs[i].endpoint \in {API_SYSTEM_STATUS, API_AUTH_SIGN_IN}
         /\ reqs[i].outcome \in {"201", "401", "404", "500"}) =>
            /\ ~\E j \in Indices : j > i /\ reqs[j].session = reqs[i].session
            /\ flow.pc = "form" /\ flow.raised # None
            /\ (flow.raised = "InvalidAuthError") <=>
                  (reqs[i].endpoint = API_AUTH_SIGN_IN /\ reqs[i].outcome = "401")

\* the step in which the handshake of a reauthentication returns
ReauthReturns == /\ flow.step = "reauth_confirm"
                 /\ hs.pc = "create_session" /\ hs'.pc = "returned"

\* C18: when the handshake of a reauthentication returns a user id other
\* than the stored one, the step ends with wrong_account and the stored
\* entry is what it was.
C18_WrongAccountRejected ==
    [][(ReauthReturns /\ hs.user_data[1].user.id # entry.user_id) =>
          /\ flow'.pc = "form" /\ flow'.errors = "wrong_account"
          /\ entry' = entry]_vars

C18_Witness ==
    /\ flow.step = "reauth_confirm" /\ flow.errors = "wrong_account"
    /\ hs.pc = "returned" /\ hs.user_data[1].user.id = "u2"
    /\ entry = StoredEntry("http")

\* C19: the stored entry changes only in the step in which the handshake
\* of a reauthentication returns the stored user id.
C19_OnlyReauthChangesEntry ==
    [][entry' # entry =>
          /\ ReauthReturns
          /\ hs.user_data[1].user.id = entry.user_id
          /\ flow'.pc = "abort"]_vars

C19_Witness ==
    /\ entry.session_token = "t1"
    /\ ended.op = "stop" /\ ended.outcome = "401"
    /\ flow.pc = "form" /\ flow.errors = "invalid_auth"

\* C20: a step that changes the stored entry sets its token and its expiry
\* to those of the session answer of that step, and changes no other field.
C20_TokenAndExpiryTogether ==
    [][entry' # entry =>
          /\ hs'.pc = "returned"
          /\ entry'.session_token = hs'.session_data[1].serverSessionToken
          /\ entry'.session_expires = hs'.session_data[1].expiresAt
          /\ \A f \in {"host", "port", "protocol", "hub_id", "hub_name", "user_id",
                        "email"} : entry'[f] = entry[f]]_vars

C20_Witness ==
    /\ flow.pc = "abort"
    /\ entry.session_token = "t2" /\ entry.session_expires = "2027-06-01"
    /\ hs.hub_info[1].device.id = "hubB" /\ entry.hub_id = "hubA"
    /\ entry.protocol = None /\ reqs[1].protocol = "https"

(***************************************************************************)
(* Properties of the diff engine (checked under DiffSpec; C24 under Spec). *)
(***************************************************************************)
Returned == diff.pc = "returned"

\* the places of session id in a list, and the activity ids found there
Occ(sessions, id) == {i \in 1..Len(sessions) : sessions[i].id = id}

ActsOf(sessions, id) == {sessions[i].activity_id : i \in Occ(sessions, id)}

\* the activity id is that of an activity of the catalog of the call
InCatalog(a) == \E k \in 1..Len(diff.activities) : diff.activities[k].id = a

EventTypes == {"session_started", "session_stopped", "session_changed"}

\* the places in the fired events of the events of one class for one session
EventsOf(id, type) ==
    {k \in 1..Len(diff.fired) : /\ diff.fired[k].session_id = id
                                /\ diff.fired[k].data.type = type}

\* C21: a call whose old and new session lists are the same list fires no
\* event, whatever the catalog.
C21_SelfDiffIsEmpty ==
    (Returned /\ diff.old_sessions = diff.new_sessions) => diff.fired = <<>>

C21_Witness ==
    /\ Returned /\ diff.old_sessions = diff.new_sessions
    /\ Len(diff.old_sessions) = 2
    /\ diff.old_sessions[1].id = diff.old_sessions[2].id
    /\ diff.old_sessions[1].activity_id = "a1"
    /\ diff.old_sessions[2].activity_id = "a2"
    /\ Len(diff.activities) = 2

\* C22: a session id that is in both lists, with one and the same
\* activity_id wherever it occurs, gets no event of any class.
C22_UnchangedSessionIsSilent ==
    Returned =>
        \A id \in DiffSessionIds :
            (/\ Occ(diff.old_sessions, id) # {} /\ Occ(diff.new_sessions, id) # {}
             /\ \E a \in ActivityIds \cup {None} :
                    /\ ActsOf(diff.old_sessions, id) = {a}
                    /\ ActsOf(diff.new_sessions, id) = {a}) =>
                \A type \in EventTypes : EventsOf(id, type) = {}

C22_Witness ==
    /\ Returned
    /\ diff.old_sessions = <<Session("s1", "a1"), Session("s2", "a1")>>
    /\ diff.new_sessions = <<Session("s2", "a2"), Session("s1", "a1")>>
    /\ Len(diff.activities) = 2
    /\ Len(diff.fired) = 1 /\ diff.fired[1].session_id = "s2"

\* C23: each session of the new list whose id is not in the old list and
\* whose activity is in the catalog gets exactly one session_started event,
\* with that activity's id and name and the session's workspace and start
\* time; an id of the old list gets no session_started event.
C23_StartedExactlyOnce ==
    Returned =>
        /\ \A i \in 1..Len(diff.new_sessions) :
              LET new_session == diff.new_sessions[i]
              IN (/\ Occ(diff.old_sessions, new_session.id) = {}
                  /\ InCatalog(new_session.activity_id)) =>
                     /\ Cardinality(EventsOf(new_session.id, "session_started")) = 1
                     /\ \A k \in EventsOf(new_session.id, "session_started") :
                           /\ diff.fired[k].data.activity_id = new_session.activity_id
                           /\ diff.fired[k].data.activity_name =
                                  ActivityName(new_session.activity_id)
                           /\ diff.fired[k].data.workspace_id = new_session.workspace_id
                           /\ diff.fired[k].data.workspace_name = new_session.workspace_name
                           /\ diff.fired[k].data.session_start_time = new_session.start_time
        /\ \A id \in DiffSessionIds :
              Occ(diff.old_sessions, id) # {} => EventsOf(id, "session_started") = {}

ActivityDiffers(id) ==
    /\ Occ(diff.old_sessions, id) # {} /\ Occ(diff.new_sessions, id) # {}
    /\ ActsOf(diff.old_sessions, id) \cap ActsOf(diff.new_sessions, id) = {}

\* C25: a session id in both lists whose activity_id differs, both
\* activities being in the catalog, gets exactly one session_changed event,
\* with the new activity's id, name, colour and icon and the old
\* activity_id as previous_activity_id, and no started or stopped event.
C25_ChangedExactlyOnce ==
    Returned =>
        \A id \in DiffSessionIds :
            (/\ ActivityDiffers(id)
             /\ \A a \in ActsOf(diff.old_sessions, id) \cup ActsOf(diff.new_sessions, id) :
                    InCatalog(a)) =>
                /\ Cardinality(EventsOf(id, "session_changed")) = 1
                /\ \A k \in EventsOf(id, "session_changed") :
                      /\ diff.fired[k].data.activity_id \in ActsOf(diff.new_sessions, id)
                      /\ diff.fired[k].data.activity_name =
                             ActivityName(diff.fired[k].data.activity_id)
                      /\ diff.fired[k].data.color =
                             Activity(diff.fired[k].data.activity_id).color
                      /\ diff.fired[k].data.icon =
                             Activity(diff.fired[k].data.activity_id).icon
                      /\ diff.fired[k].data.previous_activity_id
                             \in ActsOf(diff.old_sessions, id)
                /\ EventsOf(id, "session_started") = {}
                /\ EventsOf(id, "session_stopped") = {}

C25_Witness ==
    /\ Returned
    /\ diff.old_sessions = <<Session("s1", "a1")>>
    /\ diff.new_sessions = <<Session("s1", "a2")>>
    /\ Len(diff.activities) = 2
    /\ Len(diff.fired) = 1
    /\ diff.fired[1].data.type = "session_changed"
    /\ diff.fired[1].data.previous_activity_id = "a1"

\* C26: a session id in both lists whose activity_id differs, the new
\* activity being in the catalog and the old one not, still gets exactly one
\* session_changed event, with the old activity_id as previous_activity_id
\* and no previous_activity_name.
C26_ChangedWithoutPreviousName ==
    Returned =>
        \A id \in DiffSessionIds :
            (/\ ActivityDiffers(id)
             /\ \A a \in ActsOf(diff.new_sessions, id) : InCatalog(a)
             /\ \A a \in ActsOf(diff.old_sessions, id) : ~InCatalog(a)) =>
                /\ Cardinality(EventsOf(id, "session_changed")) = 1
                /\ \A k \in EventsOf(id, "session_changed") :
                      /\ diff.fired[k].data.previous_activity_id
                             \in ActsOf(diff.old_sessions, id)
                      /\ diff.fired[k].data.previous_activity_name = None

C26_Witness ==
    /\ Returned
    /\ diff.old_sessions = <<Session("s1", "a1")>>
    /\ diff.new_sessions = <<Session("s1", "a2")>>
    /\ diff.activities = <<Activity("a2")>>
    /\ Len(diff.fired) = 1
    /\ diff.fired[1].data.previous_activity_id = "a1"
    /\ diff.fired[1].data.previous_activity_name = None

\* the events fired for sessions other than id, in the order fired
RECURSIVE EventsExcept(_, _)
EventsExcept(events, id) ==
    IF events = <<>> THEN <<>>
    ELSE (IF Head(events).session_id = id THEN <<>> ELSE <<Head(events)>>)
         \o EventsExcept(Tail(events), id)

\* C27: a session of the new list none of whose activity ids is in the
\* catalog gets no started and no stopped event, the call returns, and the
\* events of the other sessions are those of the call without that session.
C27_OrphanIsSkippedAlone ==
    Returned =>
        \A id \in DiffSessionIds :
            (/\ Occ(diff.new_sessions, id) # {}
             /\ \A a \in ActsOf(diff.new_sessions, id) : ~InCatalog(a)) =>
                /\ EventsOf(id, "session_started") = {}
                /\ EventsOf(id, "session_stopped") = {}
                /\ EventsExcept(diff.fired, id) =
                      _fire_session_events(Without(diff.old_sessions, id),
                                           Without(diff.new_sessions, id),
                                           diff.activities)

C27_Witness ==
    /\ Returned
    /\ diff.old_sessions = <<>>
    /\ diff.new_sessions = <<Session("s1", "a1"), Session("s2", "a2")>>
    /\ diff.activities = <<Activity("a2")>>
    /\ Len(diff.fired) = 1
    /\ diff.fired[1].session_id = "s2"
    /\ diff.fired[1].data.type = "session_started"

\* C28: one call fires at most one event of each class for each session id.
C28_OneEventPerSessionAndClass ==
    Returned =>
        \A id \in DiffSessionIds, type \in EventTypes :
            Cardinality(EventsOf(id, type)) <= 1

\* an event for session id is left out because its activity is not in the
\* catalog: a start, a stop or a change
Skipped(id) ==
    \/ /\ Occ(diff.old_sessions, id) = {}
       /\ \E a \in ActsOf(diff.new_sessions, id) : ~InCatalog(a)
    \/ /\ Occ(diff.new_sessions, id) = {}
       /\ \E a \in ActsOf(diff.old_sessions, id) : ~InCatalog(a)
    \/ /\ ActivityDiffers(id)
       /\ \A a \in ActsOf(diff.new_sessions, id) : ~InCatalog(a)

\* C29: the call returns, and for each session with an event left out
\* because its activity is not in the catalog the log holds a warning.
C29_SkipIsWarned ==
    Returned =>
        \A id \in DiffSessionIds :
            Skipped(id) =>
                \E k \in 1..Len(diff.log) :
                    diff.log[k].level = "warning" /\ diff.log[k].session_id = id

\* C31: in one call no session id gets events of two different classes.
C31_ClassesDisjointPerSession ==
    Returned =>
        \A id \in DiffSessionIds :
            Cardinality({type \in EventTypes : EventsOf(id, type) # {}}) <= 1

\* one call fires a changed event for s1 and a stopped event for s2
C31_Witness ==
    /\ Returned
    /\ diff.old_sessions = <<Session("s1", "a1"), Session("s2", "a1")>>
    /\ diff.new_sessions = <<Session("s1", "a2")>>
    /\ Len(diff.activities) = 2
    /\ EventsOf("s1", "session_changed") # {}
    /\ EventsOf("s2", "session_stopped") # {}

(***************************************************************************)
(* A rejection on https is final (checked under AuthSpec).                 *)
(***************************************************************************)
\* the statuses with which the device rejects a request of the handshake
Rejections == {"401", "404", "500"}

TickFails(s) ==
    /\ tick[s].pc \in {"activities", "live_sessions"}
    /\ tick'[s].pc = "idle"
    /\ ended'.op = "refresh"
    /\ ended'.raised # None

\* C33: the snapshot changes only in the step in which a tick succeeds, to
\* the catalog and the live sessions that this tick fetched; a tick that
\* fails at either fetch leaves the snapshot as it was and fires no event,
\* and a tick that begins takes its old sessions from the snapshot held.
C33_SnapshotIsOneTicksPair ==
    [][/\ data' # data =>
             \E s \in Slots : /\ TickSucceeds(s)
                              /\ data' = DriftBeaconData(tick[s].activities, server.live)
       /\ \A s \in Slots :
             /\ TickFails(s) => (data' = data /\ ended'.fired = <<>>)
             /\ (tick[s].pc = "idle" /\ tick'[s].pc = "activities") =>
                    tick'[s].old_sessions = OldSessions(data)]_vars

\* a tick has failed at its second fetch, after the catalog was fetched,
\* and the snapshot held is the older one, behind the device in both parts
C33_Witness ==
    /\ ended.op = "refresh" /\ ended.raised = "UpdateFailed: Error communicating"
    /\ ended.nActivities = 1 /\ ended.nLive = 1
    /\ ended.fired = <<>>
    /\ data.loaded
    /\ data.activities # server.activities
    /\ data.live_sessions # server.live

\* C34: when a successful tick has fired events, the snapshot the
\* coordinator held while they were fired is the snapshot of that tick.
C34_SnapshotReplacedBeforeEvents ==
    (ended.op = "refresh" /\ ended.raised = None /\ ended.fired # <<>>) =>
        ended.held = data

\* the fetched sessions whose activity is in the fetched catalog
RECURSIVE Resolvable(_, _)
Resolvable(sessions, activities) ==
    IF sessions = <<>> THEN <<>>
    ELSE (IF get_activity(activities, Head(sessions).activity_id) # <<>>
          THEN <<Head(sessions)>> ELSE <<>>)
         \o Resolvable(Tail(sessions), activities)

\* C35: the first successful tick (the coordinator holds no snapshot yet)
\* fires one session_started event for each fetched session whose activity
\* is in the fetched catalog, in the order fetched, and no other event.
C35_FirstTickStartsEverything ==
    [][\A s \in Slots :
         (TickSucceeds(s) /\ ~data.loaded) =>
            LET started == Resolvable(data'.live_sessions, data'.activities)
            IN /\ Len(ended'.fired) = Len(started)
               /\ \A k \in 1..Len(started) :
                     /\ ended'.fired[k].session_id = started[k].id
                     /\ ended'.fired[k].data.type = "session_started"
                     /\ ended'.fired[k].data.activity_id = started[k].activity_id]_vars

\* the first tick of the coordinator has ended and has announced a session
\* that the device had opened before the tick began
C35_Witness ==
    /\ nTicks = 1
    /\ ended.op = "refresh" /\ ended.raised = None
    /\ ~ended.held.loaded
    /\ Len(ended.fired) = 1
    /\ ended.fired[1].data.type = "session_started"
    /\ data.live_sessions # <<>>

(***************************************************************************)
(* Turning a switch off (checked under SwitchSpec).                        *)
(***************************************************************************)
\* the step is an async_turn_off of the switch of `activity_id`
TurnsOff(activity_id) == sw' # sw /\ sw'.activity_id = activity_id

\* the step sends a stop command
SendsStop == cmd.pc = "idle" /\ cmd'.pc = "posting" /\ cmd'.kind = "stop"

\* C36: async_turn_off sends a stop command only if the snapshot holds a
\* live session of the switch's activity; with the activity in the catalog
\* and no such session it sends no command and calls async_request_refresh;
\* with the activity not in the catalog it sends no command, requests no
\* refresh and leaves the coordinator as it is.
C36_TurnOffStopsOnlyLiveSession ==
    [][\A a \in ActivityIds :
         TurnsOff(a) =>
            LET live == \E i \in 1..Len(data.live_sessions) :
                            data.live_sessions[i].activity_id = a
                known == \E k \in 1..Len(data.activities) : data.activities[k].id = a
            IN /\ SendsStop => live
               /\ (known /\ ~live) =>
                     /\ cmd' = cmd
                     /\ sw'.refresh
                     /\ \/ tick'["requested"].pc = "activities" /\ db'.lock
                        \/ db.cooldown /\ db'.pending
                        \/ db.lock
               /\ ~known =>
                     /\ cmd' = cmd /\ ~sw'.refresh
                     /\ tick' = tick /\ db' = db /\ nTicks' = nTicks]_vars

\* the switch of a1 was turned off while the snapshot had a1 in its catalog
\* and only a session of a2: no command, and the requested refresh runs
C36_Witness ==
    /\ sw = TurnedOff("a1", None, TRUE)
    /\ cmd = IdleCmd /\ nCmds = 0
    /\ Len(data.activities) = 2
    /\ Len(data.live_sessions) = 1 /\ data.live_sessions[1].activity_id = "a2"
    /\ tick["requested"].pc = "activities" /\ db.lock

====
